---- MODULE Spec2Model ----
(***************************************************************************)
(* coffea.nanoevents.methods.candidate: the Candidate mixin (a Lorentz     *)
(* vector with charge), its add and sum methods, and the module-level code *)
(* that registers the class in the registries of the vector module         *)
(* (vector._binary_dispatch_cls, vector._rank, vector.behavior) and sets   *)
(* the projection / momentum class attributes.                             *)
(*                                                                         *)
(* Three specifications share the variables:                               *)
(*   Spec      one thread executes lines 71-98, then may execute them      *)
(*             again (the same Candidate class object);                    *)
(*   SpecRace  two threads execute lines 71-98 in the same module          *)
(*             namespace, their steps interleaved;                         *)
(*   SpecOps   Candidate.add and Candidate.sum applied to arrays.          *)
(***************************************************************************)
EXTENDS Integers, Sequences, FiniteSets

VARIABLES
    binary_dispatch_cls, \* vector._binary_dispatch_cls: insertion-ordered dict, a sequence of <<tag, class>>
    rank,                \* vector._rank: list of classes
    behavior,            \* vector.behavior restricted to operator keys <<ufunc, lhs tag, rhs tag>>
    attrs,               \* own attribute dict of each class created by the module
    lhs, lhs_to,         \* module-level loop variables of line 78
    rhs, rhs_to,         \* module-level loop variables of line 79
    out_to,              \* module-level variable of line 81
    pc,                  \* per thread: the statement it executes next
    it_lhs, it_rhs,      \* per thread: position of the dict iterators of lines 78 and 79
    runs,                \* per thread: how many times it has started lines 71-98
    pre,                 \* history: the registries as the vector module left them
    prev,                \* history: the registries when the latest re-execution started
    A, B,                \* operands of add (flat arrays of candidates)
    events,              \* operand of sum (array of groups of candidates)
    out                  \* the value the last array operation returned

vars == <<binary_dispatch_cls, rank, behavior, attrs, lhs, lhs_to, rhs, rhs_to,
          out_to, pc, it_lhs, it_rhs, runs, pre, prev, A, B, events, out>>

regVars == <<binary_dispatch_cls, rank, behavior, attrs, lhs, lhs_to, rhs, rhs_to,
             out_to, pc, it_lhs, it_rhs, runs, pre, prev>>

opVars == <<A, B, events, out>>

(***************************************************************************)
(* Bounds                                                                  *)
(***************************************************************************)
MaxTags == 2      \* tags in vector._binary_dispatch_cls before the module is loaded
MaxRank == 2      \* classes in vector._rank before the module is loaded
MaxLoads == 2     \* executions of lines 71-98 by the one thread of Spec
MaxLen == 3       \* candidates in a flat array, and in one group of a jagged array
MaxEvents == 2    \* groups in a jagged array

(***************************************************************************)
(* Names                                                                   *)
(***************************************************************************)
Candidate == "Candidate"
ADD == "add"
SUBTRACT == "subtract"
Unset == "unset"

\* The classes of the vector module the source names (lines 15, 62, 85-87).
VectorClasses == {"TwoVector", "ThreeVector", "LorentzVector"}
\* Tags under which the vector module may have registered a class.
TagNames == <<"LorentzVector", "PtEtaPhiELorentzVector", "TwoVector", "ThreeVector">>

MixinClasses == {"Candidate", "PtEtaPhiMCandidate", "PtEtaPhiECandidate"}
ArrayClasses == {"CandidateArray", "PtEtaPhiMCandidateArray", "PtEtaPhiECandidateArray"}

(***************************************************************************)
(* Python containers                                                       *)
(***************************************************************************)
Range(s) == {s[i] : i \in 1..Len(s)}

EmptyDict == [k \in {} |-> Unset]

\* d[k] = v
SetItem(d, k, v) == [x \in DOMAIN d \cup {k} |-> IF x = k THEN v ELSE d[x]]

\* d.setdefault(k, v)
SetDefault(d, k, v) == IF k \in DOMAIN d THEN d ELSE SetItem(d, k, v)

\* list.index(c): the position of the first element equal to c
Index(s, c) == CHOOSE i \in 1..Len(s) : s[i] = c /\ \A j \in 1..(i - 1) : s[j] # c

\* The keys of an insertion-ordered dict kept as a sequence of <<key, value>>
Tags(tbl) == {tbl[i][1] : i \in 1..Len(tbl)}

ClassOf(tbl, tag) == tbl[CHOOSE i \in 1..Len(tbl) : tbl[i][1] = tag][2]

\* The attribute lookups out_to.add and out_to.subtract of lines 82-83: the
\* method of that name as seen from class cls.
Method(cls, name) == <<cls, name>>

\* The operator keys (ufunc, lhs tag, rhs tag) over a set of tags
OpKeys(T) == {ADD, SUBTRACT} \X T \X T

(***************************************************************************)
(* Lines 71-83: registration                                               *)
(***************************************************************************)
\* A dict update that appends the item even when the key is present.
DictUpdateAppends(tbl, tag, cls) == Append(tbl, <<tag, cls>>)

\* dict.update({tag: cls}) of lines 71-75: an existing key keeps its place and
\* takes the new value, a new key goes last.
DictUpdate(tbl, tag, cls) ==
    IF tag \in Tags(tbl)
    THEN [i \in 1..Len(tbl) |-> IF tbl[i][1] = tag THEN <<tag, cls>> ELSE tbl[i]]
    ELSE Append(tbl, <<tag, cls>>)

\* The class put first in the list.
RankPrepend(rk, cls) == <<cls>> \o rk

\* The class appended only when the list does not hold it yet.
RankAppendOnce(rk, cls) == IF cls \in Range(rk) THEN rk ELSE Append(rk, cls)

\* vector._rank += [Candidate] of line 76: list.__iadd__ extends the list object
\* in place in one step and the attribute is stored back to the same object.
RankIAdd(rk, cls) == Append(rk, cls)

\* The condition dropped: every pair is registered.
LoopCondAlways(l, r) == TRUE

\* The condition of line 80.
LoopCond(l, r) == l = Candidate \/ r = Candidate

\* The class of maximal index.
MaxByRank(a, b, rk) == IF Index(rk, b) > Index(rk, a) THEN b ELSE a

\* min(lhs_to, rhs_to, key=vector._rank.index) of line 81: the first of the
\* arguments whose key is minimal.
MinByRank(a, b, rk) == IF Index(rk, b) < Index(rk, a) THEN b ELSE a

\* Line 71-75 executed by thread t.
Update(t) ==
    /\ pc[t] = "update"
    /\ binary_dispatch_cls' = DictUpdate(binary_dispatch_cls, Candidate, Candidate)
    /\ pc' = [pc EXCEPT ![t] = "append"]
    /\ UNCHANGED <<rank, behavior, attrs, lhs, lhs_to, rhs, rhs_to, out_to,
                   it_lhs, it_rhs, runs, pre, prev>>
    /\ UNCHANGED opVars

\* Line 76, and the creation of the iterator of line 78.
RankAppend(t) ==
    /\ pc[t] = "append"
    /\ rank' = RankIAdd(rank, Candidate)
    /\ it_lhs' = [it_lhs EXCEPT ![t] = 0]
    /\ pc' = [pc EXCEPT ![t] = "outer"]
    /\ UNCHANGED <<binary_dispatch_cls, behavior, attrs, lhs, lhs_to, rhs, rhs_to,
                   out_to, it_rhs, runs, pre, prev>>
    /\ UNCHANGED opVars

\* Line 78: the next item of the outer iterator is stored in the module-level
\* names lhs and lhs_to, and the inner iterator is created; an exhausted
\* iterator ends the loop.
OuterNext(t) ==
    /\ pc[t] = "outer"
    /\ IF it_lhs[t] < Len(binary_dispatch_cls)
       THEN /\ it_lhs' = [it_lhs EXCEPT ![t] = @ + 1]
            /\ lhs' = binary_dispatch_cls[it_lhs[t] + 1][1]
            /\ lhs_to' = binary_dispatch_cls[it_lhs[t] + 1][2]
            /\ it_rhs' = [it_rhs EXCEPT ![t] = 0]
            /\ pc' = [pc EXCEPT ![t] = "inner"]
       ELSE /\ pc' = [pc EXCEPT ![t] = "classes"]
            /\ UNCHANGED <<it_lhs, lhs, lhs_to, it_rhs>>
    /\ UNCHANGED <<binary_dispatch_cls, rank, behavior, attrs, rhs, rhs_to, out_to,
                   runs, pre, prev>>
    /\ UNCHANGED opVars

\* Line 79.
InnerNext(t) ==
    /\ pc[t] = "inner"
    /\ IF it_rhs[t] < Len(binary_dispatch_cls)
       THEN /\ it_rhs' = [it_rhs EXCEPT ![t] = @ + 1]
            /\ rhs' = binary_dispatch_cls[it_rhs[t] + 1][1]
            /\ rhs_to' = binary_dispatch_cls[it_rhs[t] + 1][2]
            /\ pc' = [pc EXCEPT ![t] = "test"]
       ELSE /\ pc' = [pc EXCEPT ![t] = "outer"]
            /\ UNCHANGED <<it_rhs, rhs, rhs_to>>
    /\ UNCHANGED <<binary_dispatch_cls, rank, behavior, attrs, lhs, lhs_to, out_to,
                   it_lhs, runs, pre, prev>>
    /\ UNCHANGED opVars

\* Line 80.
Test(t) ==
    /\ pc[t] = "test"
    /\ pc' = [pc EXCEPT ![t] = IF LoopCond(lhs, rhs) THEN "min" ELSE "inner"]
    /\ UNCHANGED <<binary_dispatch_cls, rank, behavior, attrs, lhs, lhs_to, rhs,
                   rhs_to, out_to, it_lhs, it_rhs, runs, pre, prev>>
    /\ UNCHANGED opVars

\* Line 81.
Min(t) ==
    /\ pc[t] = "min"
    /\ out_to' = MinByRank(lhs_to, rhs_to, rank)
    /\ pc' = [pc EXCEPT ![t] = "add"]
    /\ UNCHANGED <<binary_dispatch_cls, rank, behavior, attrs, lhs, lhs_to, rhs,
                   rhs_to, it_lhs, it_rhs, runs, pre, prev>>
    /\ UNCHANGED opVars

\* Line 82.
WriteAdd(t) ==
    /\ pc[t] = "add"
    /\ behavior' = SetItem(behavior, <<ADD, lhs, rhs>>, Method(out_to, ADD))
    /\ pc' = [pc EXCEPT ![t] = "subtract"]
    /\ UNCHANGED <<binary_dispatch_cls, rank, attrs, lhs, lhs_to, rhs, rhs_to,
                   out_to, it_lhs, it_rhs, runs, pre, prev>>
    /\ UNCHANGED opVars

\* Line 83.
WriteSubtract(t) ==
    /\ pc[t] = "subtract"
    /\ behavior' = SetItem(behavior, <<SUBTRACT, lhs, rhs>>, Method(out_to, SUBTRACT))
    /\ pc' = [pc EXCEPT ![t] = "inner"]
    /\ UNCHANGED <<binary_dispatch_cls, rank, attrs, lhs, lhs_to, rhs, rhs_to,
                   out_to, it_lhs, it_rhs, runs, pre, prev>>
    /\ UNCHANGED opVars

(***************************************************************************)
(* Lines 85-98: projection and momentum classes                            *)
(***************************************************************************)
\* cls.name = val
SetAttr(at, cls, name, val) == [at EXCEPT ![cls] = SetItem(@, name, val)]

\* The three ProjectionClass assignments of one block (lines 85-87, 90-92, 95-97).
SetProjections(at, cls) ==
    SetAttr(SetAttr(SetAttr(at,
        cls, "ProjectionClass2D", "TwoVectorArray"),
        cls, "ProjectionClass3D", "ThreeVectorArray"),
        cls, "ProjectionClass4D", "LorentzVectorArray")

\* Lines 85-98 in order.
ClassAssignments(at) ==
    LET a1 == SetAttr(SetProjections(at, "CandidateArray"),
                      "CandidateArray", "MomentumClass", "CandidateArray")
        a2 == SetAttr(SetProjections(a1, "PtEtaPhiMCandidateArray"),
                      "PtEtaPhiMCandidateArray", "MomentumClass", "PtEtaPhiMCandidateArray")
    IN  SetAttr(SetProjections(a2, "PtEtaPhiECandidateArray"),
                "PtEtaPhiECandidate", "MomentumClass", "PtEtaPhiECandidateArray")

SetClasses(t) ==
    /\ pc[t] = "classes"
    /\ attrs' = ClassAssignments(attrs)
    /\ pc' = [pc EXCEPT ![t] = "done"]
    /\ UNCHANGED <<binary_dispatch_cls, rank, behavior, lhs, lhs_to, rhs, rhs_to,
                   out_to, it_lhs, it_rhs, runs, pre, prev>>
    /\ UNCHANGED opVars

\* Lines 71-98 are executed again by a thread that has finished them.
Reload(t) ==
    /\ pc[t] = "done"
    /\ runs[t] < MaxLoads
    /\ runs' = [runs EXCEPT ![t] = @ + 1]
    /\ prev' = [tbl |-> binary_dispatch_cls, rk |-> rank, beh |-> behavior]
    /\ pc' = [pc EXCEPT ![t] = "update"]
    /\ UNCHANGED <<binary_dispatch_cls, rank, behavior, attrs, lhs, lhs_to, rhs,
                   rhs_to, out_to, it_lhs, it_rhs, pre>>
    /\ UNCHANGED opVars

Step(t) ==
    \/ Update(t)
    \/ RankAppend(t)
    \/ OuterNext(t)
    \/ InnerNext(t)
    \/ Test(t)
    \/ Min(t)
    \/ WriteAdd(t)
    \/ WriteSubtract(t)
    \/ SetClasses(t)

(***************************************************************************)
(* Lines 14-48: the Candidate mixin                                        *)
(*                                                                         *)
(* An array is [tag, items]: its record name and its elements.  An element *)
(* is the record of the values its x, y, z, t and charge accessors return  *)
(* (for the PtEtaPhiM / PtEtaPhiE variants x, y, z, t are the properties   *)
(* the vector mixins derive from pt, eta, phi, mass or energy).            *)
(***************************************************************************)
CandidateTags == {"Candidate", "PtEtaPhiMCandidate", "PtEtaPhiECandidate"}

Particles ==
    { [x |-> 1, y |-> 2, z |-> 3, t |-> 4, charge |-> 1],
      [x |-> -2, y |-> 5, z |-> -1, t |-> 7, charge |-> -1] }

\* The sequences over S of length 0..n
SeqUpTo(S, n) == UNION {[1..k -> S] : k \in 0..n}

\* The charge of self alone.
add_fields_charge_of_self(p, q) ==
    [x |-> p.x + q.x, y |-> p.y + q.y, z |-> p.z + q.z, t |-> p.t + q.t,
     charge |-> p.charge]

\* The y component subtracted.
add_fields_y_subtracted(p, q) ==
    [x |-> p.x + q.x, y |-> p.y - q.y, z |-> p.z + q.z, t |-> p.t + q.t,
     charge |-> p.charge + q.charge]

\* Lines 26-30 at one position of the arrays.
add_fields(p, q) ==
    [x |-> p.x + q.x, y |-> p.y + q.y, z |-> p.z + q.z, t |-> p.t + q.t,
     charge |-> p.charge + q.charge]

\* The record name of self kept.
add_keeps_name(self, other) ==
    [tag |-> self.tag,
     items |-> [i \in 1..Len(self.items) |-> add_fields(self.items[i], other.items[i])]]

\* Candidate.add, lines 22-34, on arrays of equal length.
add(self, other) ==
    [tag |-> "Candidate",
     items |-> [i \in 1..Len(self.items) |-> add_fields(self.items[i], other.items[i])]]

\* awkward.sum(self.<f>, axis=-1) for one list of the last axis: 0 for an empty list.
RECURSIVE ak_sum(_, _)
ak_sum(g, f) == IF g = <<>> THEN 0 ELSE g[1][f] + ak_sum(Tail(g), f)

\* The charge reduced from the x column.
sum_fields_charge_from_x(g) ==
    [x |-> ak_sum(g, "x"), y |-> ak_sum(g, "y"), z |-> ak_sum(g, "z"),
     t |-> ak_sum(g, "t"), charge |-> ak_sum(g, "x")]

\* Lines 40-44 for one list of the last axis.
sum_fields(g) ==
    [x |-> ak_sum(g, "x"), y |-> ak_sum(g, "y"), z |-> ak_sum(g, "z"),
     t |-> ak_sum(g, "t"), charge |-> ak_sum(g, "charge")]

\* Candidate.sum, lines 36-48, with axis=-1 on an array of lists of candidates.
sum(self) ==
    [tag |-> "Candidate",
     items |-> [i \in 1..Len(self.items) |-> sum_fields(self.items[i])]]

NoOutput == [op |-> "none", val |-> <<>>]

Add ==
    /\ out' = [op |-> "add", val |-> add(A, B)]
    /\ UNCHANGED <<A, B, events>>
    /\ UNCHANGED regVars

AddReversed ==
    /\ out' = [op |-> "radd", val |-> add(B, A)]
    /\ UNCHANGED <<A, B, events>>
    /\ UNCHANGED regVars

Sum ==
    /\ out' = [op |-> "sum", val |-> sum(events)]
    /\ UNCHANGED <<A, B, events>>
    /\ UNCHANGED regVars

(***************************************************************************)
(* Initial states                                                          *)
(***************************************************************************)
LoadThreads == {"main"}
RaceThreads == {"t1", "t2"}

EmptyArray == [tag |-> "Candidate", items |-> <<>>]

NoArrays ==
    /\ A = EmptyArray
    /\ B = EmptyArray
    /\ events = EmptyArray
    /\ out = NoOutput

\* vector._rank as the vector module leaves it: distinct classes.
PreRanks ==
    {rk \in SeqUpTo(VectorClasses, MaxRank) :
        \A i, j \in 1..Len(rk) : i # j => rk[i] # rk[j]}

\* vector._binary_dispatch_cls as the vector module leaves it: each tag maps to
\* a class of the rank list (line 81 raises ValueError otherwise).
PreTables(rk) ==
    {[i \in 1..Len(f) |-> <<TagNames[i], f[i]>>] : f \in SeqUpTo(Range(rk), MaxTags)}

\* The decorators of lines 14 and 21: awkward registers Candidate.add for
\* (numpy.add, "Candidate", "Candidate") unless the key is taken.
Decorated(beh) == SetDefault(beh, <<ADD, Candidate, Candidate>>, Method(Candidate, ADD))

\* vector.behavior when line 71 is reached: no operator entry of the vector
\* module, or one for every pair of its tags (the implementation: any class's).
PreBehaviors(tbl, rk) ==
    {Decorated(EmptyDict)} \cup
    {Decorated([k \in OpKeys(Tags(tbl)) |-> Method(c, k[1])]) : c \in Range(rk)}

InitRegistries(threads) ==
    /\ rank \in PreRanks
    /\ binary_dispatch_cls \in PreTables(rank)
    /\ behavior \in PreBehaviors(binary_dispatch_cls, rank)
    /\ attrs = [c \in MixinClasses \cup ArrayClasses |-> EmptyDict]
    /\ lhs = Unset /\ lhs_to = Unset /\ rhs = Unset /\ rhs_to = Unset /\ out_to = Unset
    /\ pc = [t \in threads |-> "update"]
    /\ it_lhs = [t \in threads |-> 0]
    /\ it_rhs = [t \in threads |-> 0]
    /\ runs = [t \in threads |-> 1]
    /\ pre = [tbl |-> binary_dispatch_cls, rk |-> rank, beh |-> behavior]
    /\ prev = pre

Init == InitRegistries(LoadThreads) /\ NoArrays

\* The registries the two racing threads start from: the interleavings of
\* one configuration are many, so the configurations are few.
RaceRanks == {<<"LorentzVector">>, <<"TwoVector", "LorentzVector">>}

RaceTables == {<<>>, << <<"LorentzVector", "LorentzVector">> >>}

InitRace ==
    /\ InitRegistries(RaceThreads)
    /\ rank \in RaceRanks
    /\ binary_dispatch_cls \in RaceTables
    /\ NoArrays

InitOps ==
    /\ rank = <<>>
    /\ binary_dispatch_cls = <<>>
    /\ behavior = Decorated(EmptyDict)
    /\ attrs = [c \in MixinClasses \cup ArrayClasses |-> EmptyDict]
    /\ lhs = Unset /\ lhs_to = Unset /\ rhs = Unset /\ rhs_to = Unset /\ out_to = Unset
    /\ pc = [t \in LoadThreads |-> "update"]
    /\ it_lhs = [t \in LoadThreads |-> 0]
    /\ it_rhs = [t \in LoadThreads |-> 0]
    /\ runs = [t \in LoadThreads |-> 1]
    /\ pre = [tbl |-> binary_dispatch_cls, rk |-> rank, beh |-> behavior]
    /\ prev = pre
    /\ out = NoOutput
    /\ \/ /\ events = EmptyArray
          /\ \E n \in 0..MaxLen :
                /\ A \in [tag : CandidateTags, items : [1..n -> Particles]]
                /\ B \in [tag : CandidateTags, items : [1..n -> Particles]]
       \/ /\ A = EmptyArray
          /\ B = EmptyArray
          /\ events \in [tag : CandidateTags,
                         items : SeqUpTo(SeqUpTo(Particles, MaxLen), MaxEvents)]

Next == \E t \in LoadThreads : Step(t) \/ Reload(t)

NextRace == \E t \in RaceThreads : Step(t)

NextOps == Add \/ AddReversed \/ Sum

Spec == Init /\ [][Next]_vars

SpecRace == InitRace /\ [][NextRace]_vars

SpecOps == InitOps /\ [][NextOps]_vars

(***************************************************************************)
(* Properties of add and sum (SpecOps)                                     *)
(***************************************************************************)
Fields == {"x", "y", "z", "t", "charge"}

\* The arithmetic sum of field f over a list, taken from its last element.
RECURSIVE Total(_, _)
Total(g, f) ==
    IF Len(g) = 0 THEN 0 ELSE Total(SubSeq(g, 1, Len(g) - 1), f) + g[Len(g)][f]

\* C1: A.add(B) has the length of A and B, and at every position its charge is
\* the sum of the two charges and its x, y, z, t are the sums of the two
\* operands' x, y, z, t.
C1_AddIsElementwiseSum ==
    out.op = "add" =>
        /\ Len(out.val.items) = Len(A.items)
        /\ \A i \in 1..Len(A.items) :
              /\ out.val.items[i].charge = A.items[i].charge + B.items[i].charge
              /\ out.val.items[i].x = A.items[i].x + B.items[i].x
              /\ out.val.items[i].y = A.items[i].y + B.items[i].y
              /\ out.val.items[i].z = A.items[i].z + B.items[i].z
              /\ out.val.items[i].t = A.items[i].t + B.items[i].t

C1_Witness ==
    /\ out.op = "add"
    /\ Len(A.items) >= 2
    /\ A.items[1] # B.items[1]
    /\ A.items[1] # A.items[2]

\* C2: sum(axis=-1) reduces every list of the last axis field by field: each of
\* x, y, z, t and charge of the result is the arithmetic sum of that field over
\* the list, 0 for an empty list.
C2_SumReducesEachField ==
    out.op = "sum" =>
        /\ Len(out.val.items) = Len(events.items)
        /\ \A i \in 1..Len(events.items) : \A f \in Fields :
              out.val.items[i][f] = Total(events.items[i], f)

C2_Witness ==
    /\ out.op = "sum"
    /\ \E i, j \in 1..Len(events.items) :
          /\ Len(events.items[i]) = 3
          /\ events.items[i][1] # events.items[i][2]
          /\ events.items[j] = <<>>
          /\ out.val.items[j].charge = 0

\* C7 as claimed: the array add and sum return carries the record name of the
\* input.
C7_OutputKeepsInputTag ==
    /\ out.op = "add" => out.val.tag = A.tag
    /\ out.op = "radd" => out.val.tag = B.tag
    /\ out.op = "sum" => out.val.tag = events.tag

\* C7 as amended: the array add and sum return is named "Candidate" whatever
\* the record name of the input.
C7_OutputIsNamedCandidate ==
    out.op \in {"add", "radd", "sum"} => out.val.tag = "Candidate"

C7_Witness ==
    /\ out.op = "add"
    /\ A.tag = "PtEtaPhiMCandidate"
    /\ B.tag = "PtEtaPhiECandidate"
    /\ Len(A.items) >= 1

\* C9: B.add(A) has the same x, y, z, t and charge at every position as A.add(B).
C9_AddCommutes ==
    out.op = "radd" =>
        /\ Len(out.val.items) = Len(A.items)
        /\ \A i \in 1..Len(A.items) : \A f \in Fields :
              out.val.items[i][f] = add(A, B).items[i][f]

C9_Witness ==
    /\ out.op = "radd"
    /\ Len(A.items) >= 1
    /\ A.items[1] # B.items[1]

(***************************************************************************)
(* Properties of the load (Spec)                                           *)
(***************************************************************************)
LoadDone == \A t \in LoadThreads : pc[t] = "done"

NoCandidateTag(k) == k[2] # Candidate /\ k[3] # Candidate

\* Of classes a and b, one whose index in the rank list is minimal.
Winner(a, b) ==
    CHOOSE c \in {a, b} : \A d \in {a, b} : Index(rank, c) <= Index(rank, d)

\* C3: every operator entry present before the load whose key has neither tag
\* equal to "Candidate" is still present and maps to the same implementation,
\* at every point of the load and after it.
C3_NonCandidateEntriesKept ==
    \A k \in DOMAIN pre.beh :
        NoCandidateTag(k) => k \in DOMAIN behavior /\ behavior[k] = pre.beh[k]

C3_Witness ==
    /\ LoadDone
    /\ \E k \in DOMAIN pre.beh : NoCandidateTag(k)
    /\ \E k \in DOMAIN behavior : k \notin DOMAIN pre.beh

\* C4: after the load, for every tag T of the dispatch-class table, add and
\* subtract entries exist for ("Candidate", T) and (T, "Candidate"), and both
\* are that method of the class of minimal rank index among the two tags'
\* classes.
C4_CandidatePairsRegistered ==
    LoadDone =>
        \A T \in Tags(binary_dispatch_cls) : \A op \in {ADD, SUBTRACT} :
            LET w == Winner(ClassOf(binary_dispatch_cls, Candidate),
                            ClassOf(binary_dispatch_cls, T))
            IN  /\ <<op, Candidate, T>> \in DOMAIN behavior
                /\ <<op, T, Candidate>> \in DOMAIN behavior
                /\ behavior[<<op, Candidate, T>>] = Method(w, op)
                /\ behavior[<<op, T, Candidate>>] = Method(w, op)

C4_Witness ==
    /\ LoadDone
    /\ Len(binary_dispatch_cls) >= 3
    /\ \E T \in Tags(binary_dispatch_cls) :
          /\ T # Candidate
          /\ behavior[<<ADD, T, Candidate>>] = Method(ClassOf(binary_dispatch_cls, T), ADD)

\* C5 as claimed: executing the registration again leaves the dispatch-class
\* table, the rank list and the operator entries as the previous execution
\* left them.
C5_ReloadChangesNothing ==
    (LoadDone /\ \E t \in LoadThreads : runs[t] >= 2) =>
        /\ binary_dispatch_cls = prev.tbl
        /\ rank = prev.rk
        /\ behavior = prev.beh

\* C5 as amended: executing the registration again leaves the dispatch-class
\* table and the operator entries as the previous execution left them, and
\* the rank list is the previous one with Candidate appended once more.
C5_ReloadOnlyGrowsRank ==
    (LoadDone /\ \E t \in LoadThreads : runs[t] >= 2) =>
        /\ binary_dispatch_cls = prev.tbl
        /\ behavior = prev.beh
        /\ rank = Append(prev.rk, Candidate)

C5_Witness ==
    /\ LoadDone
    /\ \E t \in LoadThreads : runs[t] = 2
    /\ Len(pre.tbl) >= 1
    /\ behavior # pre.beh

\* C8 as claimed: after the load each of the three array classes has
\* MomentumClass among its own attributes, with itself as the value.
C8_MomentumClassOnArrayClass ==
    LoadDone =>
        \A c \in ArrayClasses :
            /\ "MomentumClass" \in DOMAIN attrs[c]
            /\ attrs[c]["MomentumClass"] = c

AllDone == \A t \in RaceThreads : pc[t] = "done"

\* The operator keys with "Candidate" on a side, over the tags T and "Candidate".
CandidateKeys(T) == {k \in OpKeys(T \cup {Candidate}) : ~NoCandidateTag(k)}

\* The registries one execution of lines 71-83 leaves, started from the
\* registries r of the vector module (Candidate in neither): Candidate last in
\* the table and in the rank list, so the other class of a pair wins.
SequentialResult(r) ==
    [tbl |-> Append(r.tbl, <<Candidate, Candidate>>),
     rk |-> Append(r.rk, Candidate),
     beh |-> [k \in DOMAIN r.beh \cup CandidateKeys(Tags(r.tbl)) |->
                IF NoCandidateTag(k) THEN r.beh[k]
                ELSE IF k[2] # Candidate THEN Method(ClassOf(r.tbl, k[2]), k[1])
                ELSE IF k[3] # Candidate THEN Method(ClassOf(r.tbl, k[3]), k[1])
                ELSE Method(Candidate, k[1])]]

\* Under Spec: the first execution leaves SequentialResult(pre).
FirstLoadIsSequentialResult ==
    (LoadDone /\ \A t \in LoadThreads : runs[t] = 1) =>
        [tbl |-> binary_dispatch_cls, rk |-> rank, beh |-> behavior] = SequentialResult(pre)

\* C6 as claimed: when both threads have finished, the registries are those a
\* single sequential registration leaves, whatever the interleaving.
C6_RaceEqualsOneRegistration ==
    AllDone =>
        [tbl |-> binary_dispatch_cls, rk |-> rank, beh |-> behavior] = SequentialResult(pre)

\* C6 as amended: when both threads have finished, whatever the interleaving,
\* the dispatch-class table is the one a single sequential registration leaves
\* and the rank list is that registration's with Candidate appended once more.
C6_RaceFixesTableAndRank ==
    AllDone =>
        /\ binary_dispatch_cls = SequentialResult(pre).tbl
        /\ rank = Append(SequentialResult(pre).rk, Candidate)

\* Both threads have finished and an operator entry of a pair without
\* "Candidate" is not what it was before the threads started.
C6_Witness ==
    /\ AllDone
    /\ \E k \in DOMAIN behavior :
          /\ NoCandidateTag(k)
          /\ k \in DOMAIN pre.beh
          /\ behavior[k] # pre.beh[k]

\* Both threads have finished and an operator entry of a pair with "Candidate"
\* is missing.
RaceLosesEntry ==
    /\ AllDone
    /\ \E k \in CandidateKeys(Tags(pre.tbl)) : k \notin DOMAIN behavior

====
